---- MODULE Spec2Model ----
(***************************************************************************)
(* Q-Drift CLI (src/main.py): the `analyze` command as a state machine.    *)
(*                                                                         *)
(* Numbers.  Python floats are modelled in fixed point:                    *)
(*   - noise is an integer number of 1/NoiseUnit (tenths);                 *)
(*   - a probability is an integer number of 1/ProbUnit (hundredths);      *)
(*   - a value of random.random() is floor(r * DrawUnit);                  *)
(*   - entropy and bias are integer numbers of 1/Scale; the entropy is     *)
(*     within 5/Scale of the float and on the same side of 0.4 and 0.8     *)
(*     for every list of up to 1000 binary values.                         *)
(* The random source is the stream it was last seeded with and the number  *)
(* of values drawn from it since: [origin, pos], origin <<>> for the seed  *)
(* taken from the operating system at import, <<a>> after random.seed(a).  *)
(* Optional arguments (seed, output) are <<>> for None and <<v>> for v.    *)
(***************************************************************************)
EXTENDS Integers, Sequences, FiniteSets, TLC

VARIABLES
    rng,            \* state of the process-wide random source (module random)
    pc,             \* position inside analyze
    simulations, noise, seed, output, graph, ci_mode,   \* arguments of analyze
    results,        \* list[int] built by the comprehension of line 87/89
    draws,          \* number of random.random() calls made by this run
    entropy, bias, state_0_count, state_1_count,        \* locals, lines 91-96
    status_msg, exit_code,                              \* locals, lines 115-116
    written,        \* the open()/json.dump attempts of this run, in order
    console,        \* what console.print received in this run, in order
    exit_status,    \* <<>> while running, <<code>> once the process status is set
    rng_at_call,    \* <<rng>> as it was when analyze was entered, <<>> when idle
    ref             \* observer: one completed seeded run, <<>> if none recorded

args    == <<simulations, noise, seed, output, graph, ci_mode>>
metrics == <<entropy, bias, state_0_count, state_1_count>>
verdict == <<status_msg, exit_code>>
vars    == <<rng, pc, args, results, draws, metrics, verdict, written, console,
             exit_status, rng_at_call, ref>>

----------------------------------------------------------------------------
(* Bounds of the model *)

MaxSims == 5
MaxLen == 5
StreamLen == 8

(* Units of the fixed-point representation *)

NoiseUnit == 10
ProbUnit == 100
DrawUnit == 10000
Scale == 100000000
FracBits == 28
ResBits == 26

(* Inputs *)

SimulationsValues == (0 - 1) .. MaxSims
NoiseValues == {0 - 1, 0, 3, 5, NoiseUnit, NoiseUnit + 1}
SeedValues == {<<>>, <<0>>, <<42>>}
OutputValues == {<<>>, <<"">>, <<"report.json">>}

----------------------------------------------------------------------------
(* The random source: random.seed(int) and random.random() *)

Abs(x) == IF x < 0 THEN 0 - x ELSE x

\* the source as module random leaves it at import: seeded from the operating
\* system, nothing drawn yet
OsSeeded == [origin |-> <<>>, pos |-> 0]

\* random.seed(a): the state is a function of abs(a) alone
SeedState(a) == [origin |-> <<Abs(a)>>, pos |-> 0]

\* random.random(): the source moves one value further along its stream
RandomNext(s) == [origin |-> s.origin, pos |-> s.pos + 1]

\* floor(r * DrawUnit) for the first values r of random.random() after
\* random.seed(a), a >= 0
SeedStream(a) ==
    CASE a = 0 ->
           <<8444, 7579, 4205, 2589, 5112, 4049, 7837, 3033,
             4765, 5833, 9081, 5046, 2818, 7558, 6183, 2505>>
      [] a = 7 ->
           <<3238, 1508, 6509, 724, 5358, 3656, 579, 5074,
             374, 4336, 698, 907, 4245, 8268, 1238, 2232>>
      [] a = 10 ->
           <<5714, 4288, 5780, 2060, 8133, 8235, 6534, 1602,
             5206, 3277, 2499, 9528, 9965, 445, 8601, 6031>>
      [] a = 16 ->
           <<3615, 4804, 4169, 4467, 4095, 6577, 2588, 6349,
             101, 3020, 3350, 1419, 7434, 3101, 7892, 9562>>
      [] a = 42 ->
           <<6394, 250, 2750, 2232, 7364, 6766, 8921, 869,
             4219, 297, 2186, 5053, 265, 1988, 6498, 5449>>

\* values the operating-system seeded stream may hold at any position: the
\* ends of [0,1) and both sides of every probability the inputs produce
OsDraws == {0, 4499, 4500, 6299, 6300, 8999, 9000, DrawUnit - 1}

\* random.random() in state s: the values it can return, in 1/DrawUnit
RandomValue(s) ==
    IF s.origin = <<>> THEN OsDraws
    ELSE {SeedStream(s.origin[1])[s.pos + 1]}

----------------------------------------------------------------------------
(* quantum_gate_simulation, lines 14-19 *)

Min(a, b) == IF a < b THEN a ELSE b
Max(a, b) == IF a > b THEN a ELSE b

BaseProbability == 9

\* shifted probability in 1/ProbUnit: 0.9 * (1.0 - noise_level), clamped to [0,1]
ShiftedProbability(noise_level) ==
    Max(0, Min(ProbUnit, BaseProbability * (NoiseUnit - noise_level)))

\* variant: the comparison of line 19 written <= instead of <
quantum_gate_simulation_asInclusive(noise_level, r) ==
    IF r * ProbUnit <= ShiftedProbability(noise_level) * DrawUnit
    THEN 1 ELSE 0

\* 1 if random.random() < shifted_probability else 0, r the value drawn
quantum_gate_simulation(noise_level, r) ==
    IF r * ProbUnit < ShiftedProbability(noise_level) * DrawUnit
    THEN 1 ELSE 0

----------------------------------------------------------------------------
(* Float arithmetic in fixed point *)

Pow2(k) == 2 ^ k

\* <<floor(a * b / d), (a * b) % d>> for x = <<a, b, d>>, without forming a * b
MulDivMod[x \in Nat \X Nat \X Nat] ==
    LET a == x[1]
        b == x[2]
        d == x[3]
    IN  IF b = 0 THEN <<0, 0>>
        ELSE LET h == MulDivMod[<<a, b \div 2, d>>]
                 t == 2 * h[2] + (b % 2) * a
             IN  <<2 * h[1] + (t \div d), t % d>>

MulDiv(a, b, d) == MulDivMod[<<a, b, d>>][1]

\* largest e with den * 2^e <= num  (num >= den >= 1)
RECURSIVE IntLog2(_, _)
IntLog2(num, den) == IF 2 * den > num THEN 0 ELSE 1 + IntLog2(num, 2 * den)

\* floor(y * y / 2^FracBits) for y < 2^(FracBits+1), without forming y * y:
\* y = h * 2^k + l with k = FracBits / 2
MantissaSquare(y) ==
    LET half == Pow2(FracBits \div 2)
        h == y \div half
        l == y % half
    IN  h * h + ((2 * h * l + ((l * l) \div half)) \div half)

\* for x = <<y, i, acc>>: acc followed by the next i binary digits of
\* log2(y / 2^FracBits), y in [2^FracBits, 2^(FracBits+1))
FracLog2[x \in Nat \X Nat \X Nat] ==
    LET y == x[1]
        i == x[2]
        acc == x[3]
    IN  IF i = 0 THEN acc
        ELSE LET sq == MantissaSquare(y)
             IN  IF sq >= Pow2(FracBits + 1)
                 THEN FracLog2[<<sq \div 2, i - 1, 2 * acc + 1>>]
                 ELSE FracLog2[<<sq, i - 1, 2 * acc>>]

\* log2(num/den) in 1/Scale, for num >= den >= 1; exact for a power of 2
Log2Ratio(num, den) ==
    LET e  == IntLog2(num, den)
        y0 == MulDiv(num, Pow2(FracBits), den * Pow2(e))
        l  == e * Pow2(ResBits) + FracLog2[<<y0, ResBits, 0>>]
    IN  MulDiv(l, Scale, Pow2(ResBits))

----------------------------------------------------------------------------
(* calculate_entropy, lines 22-32, and calculate_collapse_bias, lines 35-41 *)

\* list.count(v) / Counter(states)[v]
Count(states, v) == Cardinality({i \in 1 .. Len(states) : states[i] = v})

\* variant: line 31 written entropy += p * log2(p)
EntropyTerm_asAdded(count, total) ==
    0 - MulDiv(count, Log2Ratio(total, count), total)

\* one pass of the loop body: -(p * log2(p)) with p = count / total
EntropyTerm(count, total) == MulDiv(count, Log2Ratio(total, count), total)

\* the loop of lines 29-31 over the counts of the values in vals
RECURSIVE SumEntropyTerms(_, _)
SumEntropyTerms(states, vals) ==
    IF vals = {} THEN 0
    ELSE LET v == CHOOSE x \in vals : TRUE
         IN  EntropyTerm(Count(states, v), Len(states))
             + SumEntropyTerms(states, vals \ {v})

calculate_entropy(states) ==
    LET total == Len(states)
        counts == {states[i] : i \in 1 .. Len(states)}
    IN  IF total = 0 THEN 0
        ELSE SumEntropyTerms(states, counts)

\* variant: line 41 without abs
calculate_collapse_bias_asSigned(states) ==
    LET total == Len(states)
    IN  IF total = 0 THEN 0
        ELSE MulDiv(Count(states, 1), Scale, total) - (Scale \div 2)

calculate_collapse_bias(states) ==
    LET total == Len(states)
    IN  IF total = 0 THEN 0
        ELSE LET ones_ratio == MulDiv(Count(states, 1), Scale, total)
             IN  Abs(ones_ratio - (Scale \div 2))

----------------------------------------------------------------------------
(* Classification, lines 115-130 *)

CriticalThreshold == (8 * Scale) \div 10
WarningThreshold == (4 * Scale) \div 10

CRITICAL == "CRITICAL: High structural fragility detected."
WARNING == "WARNING: Moderate drift detected."
STABLE == "STABLE: System appears robust."

\* variant: lines 118 and 123 written >= instead of >
StatusMsg_asInclusive(e) ==
    IF e >= CriticalThreshold THEN CRITICAL
    ELSE IF e >= WarningThreshold THEN WARNING
    ELSE STABLE

StatusMsg(e) ==
    IF e > CriticalThreshold THEN CRITICAL
    ELSE IF e > WarningThreshold THEN WARNING
    ELSE STABLE

\* variant: exit_code = 1 set in the WARNING branch as well
ExitCode_asWarningFails(e) == IF e > WarningThreshold THEN 1 ELSE 0

ExitCode(e) == IF e > CriticalThreshold THEN 1 ELSE 0

----------------------------------------------------------------------------
(* analyze, lines 62-158 *)

\* the two validation conditions, lines 77 and 81
\* variant: line 77 written simulations < 0
SimulationsRejected_asNegativeOnly(n) == n < 0

SimulationsRejected(n) == n <= 0
NoiseRejected(x) == ~(0 <= x /\ x <= NoiseUnit)

\* truthiness of an optional string: None and "" are falsy (line 133)
Truthy(opt) == opt # <<>> /\ opt # <<"">>

Say(on, tag) == IF on THEN <<tag>> ELSE <<>>

Init ==
    /\ rng = OsSeeded
    /\ pc = "idle"
    /\ simulations = 0 /\ noise = 0 /\ seed = <<>> /\ output = <<>>
    /\ graph = TRUE /\ ci_mode = FALSE
    /\ results = <<>> /\ draws = 0
    /\ entropy = 0 /\ bias = 0 /\ state_0_count = 0 /\ state_1_count = 0
    /\ status_msg = "" /\ exit_code = 0
    /\ written = <<>> /\ console = <<>> /\ exit_status = <<>>
    /\ rng_at_call = <<>> /\ ref = <<>>

\* the CLI layer calls analyze with parsed options (lines 62-69)
InvokeFrom(Sims, Noises, Seeds, Outputs, Graphs, CiModes) ==
    /\ pc = "idle"
    /\ simulations' \in Sims /\ noise' \in Noises /\ seed' \in Seeds
    /\ output' \in Outputs /\ graph' \in Graphs /\ ci_mode' \in CiModes
    /\ (IF seed' = <<>> THEN rng.pos ELSE 0) + Max(0, simulations') <= StreamLen
    /\ rng_at_call' = <<rng>>
    /\ pc' = "seed"
    /\ UNCHANGED <<rng, results, draws, metrics, verdict, written, console,
                   exit_status, ref>>

Invoke ==
    InvokeFrom(SimulationsValues, NoiseValues, SeedValues, OutputValues,
               BOOLEAN, BOOLEAN)

\* variant: lines 72-75 print the banner but never call random.seed
SeedStep_asNoSeed ==
    /\ pc = "seed"
    /\ console' = console \o Say(seed # <<>> /\ ~ci_mode, "seed")
    /\ pc' = "validate"
    /\ UNCHANGED <<rng, args, results, draws, metrics, verdict, written,
                   exit_status, rng_at_call, ref>>

\* lines 72-75
SeedStep ==
    /\ pc = "seed"
    /\ rng' = IF seed # <<>> THEN SeedState(seed[1]) ELSE rng
    /\ console' = console \o Say(seed # <<>> /\ ~ci_mode, "seed")
    /\ pc' = "validate"
    /\ UNCHANGED <<args, results, draws, metrics, verdict, written,
                   exit_status, rng_at_call, ref>>

\* lines 77-83
Validate ==
    /\ pc = "validate"
    /\ IF SimulationsRejected(simulations)
       THEN /\ console' = console \o <<"err_simulations">>
            /\ exit_status' = <<1>>
            /\ pc' = "exited"
       ELSE IF NoiseRejected(noise)
       THEN /\ console' = console \o <<"err_noise">>
            /\ exit_status' = <<1>>
            /\ pc' = "exited"
       ELSE /\ pc' = "generate"
            /\ UNCHANGED <<console, exit_status>>
    /\ UNCHANGED <<rng, args, results, draws, metrics, verdict, written,
                   rng_at_call, ref>>

\* variant: the comprehension runs over range(simulations + 1)
Generate_asOneMore ==
    /\ pc = "generate"
    /\ Len(results) <= simulations
    /\ \E r \in RandomValue(rng) :
          results' = Append(results, quantum_gate_simulation(noise, r))
    /\ rng' = RandomNext(rng)
    /\ draws' = draws + 1
    /\ UNCHANGED <<pc, args, metrics, verdict, written, console,
                   exit_status, rng_at_call, ref>>

\* lines 85-89: one element of the list comprehension
Generate ==
    /\ pc = "generate"
    /\ Len(results) < simulations
    /\ \E r \in RandomValue(rng) :
          results' = Append(results, quantum_gate_simulation(noise, r))
    /\ rng' = RandomNext(rng)
    /\ draws' = draws + 1
    /\ UNCHANGED <<pc, args, metrics, verdict, written, console,
                   exit_status, rng_at_call, ref>>

\* lines 91-112: metrics, counts, chart and table
Metrics ==
    /\ pc = "generate"
    /\ Len(results) >= simulations
    /\ entropy' = calculate_entropy(results)
    /\ bias' = calculate_collapse_bias(results)
    /\ state_0_count' = Count(results, 0)
    /\ state_1_count' = Count(results, 1)
    /\ console' = console
            \o Say(graph /\ ~ci_mode, "")
            \o Say(graph /\ ~ci_mode /\ Len(results) # 0, "chart")
            \o Say(graph /\ ~ci_mode, "")
            \o Say(~ci_mode, "table")
    /\ pc' = "classify"
    /\ UNCHANGED <<rng, args, results, draws, verdict, written,
                   exit_status, rng_at_call, ref>>

\* lines 115-130
Classify ==
    /\ pc = "classify"
    /\ status_msg' = StatusMsg(entropy)
    /\ exit_code' = ExitCode(entropy)
    /\ console' = console \o Say(~ci_mode, "status")
    /\ pc' = "export"
    /\ UNCHANGED <<rng, args, results, draws, metrics, written,
                   exit_status, rng_at_call, ref>>

\* the dictionary of lines 134-147
ReportData ==
    [simulations |-> simulations, noise_level |-> noise, seed |-> seed,
     entropy |-> entropy, bias |-> bias,
     fail_0 |-> state_0_count, pass_1 |-> state_1_count,
     status |-> status_msg]

\* variant: the raise of lines 157-158 placed before the export block
ExportSkip_asSkipOnCritical ==
    /\ pc = "export"
    /\ (~Truthy(output) \/ exit_code # 0)
    /\ pc' = "finish"
    /\ UNCHANGED <<rng, args, results, draws, metrics, verdict, written,
                   console, exit_status, rng_at_call, ref>>

\* line 133 false: nothing to export
ExportSkip ==
    /\ pc = "export"
    /\ ~Truthy(output)
    /\ pc' = "finish"
    /\ UNCHANGED <<rng, args, results, draws, metrics, verdict, written,
                   console, exit_status, rng_at_call, ref>>

\* lines 148-152: open and json.dump succeed
ExportOk ==
    /\ pc = "export"
    /\ Truthy(output)
    /\ written' = Append(written, [ok |-> TRUE, data |-> ReportData])
    /\ console' = console \o Say(~ci_mode, "saved")
    /\ pc' = "finish"
    /\ UNCHANGED <<rng, args, results, draws, metrics, verdict,
                   exit_status, rng_at_call, ref>>

\* lines 148-155: open or json.dump raises IOError
ExportFail ==
    /\ pc = "export"
    /\ Truthy(output)
    /\ written' = Append(written, [ok |-> FALSE, data |-> ReportData])
    /\ console' = console \o <<"err_save">>
    /\ exit_status' = <<1>>
    /\ pc' = "exited"
    /\ UNCHANGED <<rng, args, results, draws, metrics, verdict,
                   rng_at_call, ref>>

\* lines 157-158, or the normal return
Finish ==
    /\ pc = "finish"
    /\ exit_status' = <<exit_code>>
    /\ pc' = "exited"
    /\ UNCHANGED <<rng, args, results, draws, metrics, verdict, written,
                   console, rng_at_call, ref>>

\* typer.Exit / return reaches the caller: the frame of analyze is gone, the
\* module-level random source stays; r is what the observer holds afterwards
ReturnWith(r) ==
    /\ pc = "exited"
    /\ simulations' = 0 /\ noise' = 0 /\ seed' = <<>> /\ output' = <<>>
    /\ graph' = TRUE /\ ci_mode' = FALSE
    /\ results' = <<>> /\ draws' = 0
    /\ entropy' = 0 /\ bias' = 0 /\ state_0_count' = 0 /\ state_1_count' = 0
    /\ status_msg' = "" /\ exit_code' = 0
    /\ written' = <<>> /\ console' = <<>> /\ exit_status' = <<>>
    /\ rng_at_call' = <<>>
    /\ pc' = "idle"
    /\ ref' = r
    /\ UNCHANGED rng

Return == ReturnWith(ref)

Next ==
    \/ Invoke
    \/ SeedStep
    \/ Validate
    \/ Generate
    \/ Metrics
    \/ Classify
    \/ ExportSkip
    \/ ExportOk
    \/ ExportFail
    \/ Finish
    \/ Return

Spec == Init /\ [][Next]_vars

----------------------------------------------------------------------------
(* Two runs compared: an observer keeps the outcome of one seeded run *)

RunRecord ==
    [seed |-> seed, simulations |-> simulations, noise |-> noise,
     results |-> results, entropy |-> entropy, bias |-> bias,
     state_0_count |-> state_0_count, state_1_count |-> state_1_count,
     status_msg |-> status_msg]

\* the observer records a seeded run that got as far as its status, as it returns
Observe ==
    /\ seed # <<>>
    /\ status_msg # ""
    /\ ref = <<>>
    /\ ReturnWith(<<RunRecord>>)

InvokeDet ==
    InvokeFrom(SimulationsValues, NoiseValues, SeedValues,
               {<<>>, <<"report.json">>}, {TRUE}, {TRUE})

NextDet ==
    \/ InvokeDet
    \/ SeedStep
    \/ Validate
    \/ Generate
    \/ Metrics
    \/ Classify
    \/ ExportSkip
    \/ ExportOk
    \/ ExportFail
    \/ Finish
    \/ Return
    \/ Observe

SpecDet == Init /\ [][NextDet]_vars

----------------------------------------------------------------------------
(* The pure functions applied to arbitrary inputs *)

\* list[int] arguments: outcomes 0 and 1, and a value that is neither
IntSequences == UNION {[1 .. n -> {0, 1, 2}] : n \in 0 .. MaxLen}

EntropyInputs ==
    {0, 1, WarningThreshold - 1, WarningThreshold, WarningThreshold + 1,
     CriticalThreshold - 1, CriticalThreshold, CriticalThreshold + 1, Scale}

InitFn ==
    /\ rng = OsSeeded
    /\ pc = "fn_input"
    /\ simulations = 0 /\ noise = 0 /\ seed = <<>> /\ output = <<>>
    /\ graph = TRUE /\ ci_mode = FALSE
    /\ results \in IntSequences /\ draws = 0
    /\ entropy \in EntropyInputs
    /\ bias = 0 /\ state_0_count = 0 /\ state_1_count = 0
    /\ status_msg = "" /\ exit_code = 0
    /\ written = <<>> /\ console = <<>> /\ exit_status = <<>>
    /\ rng_at_call = <<>> /\ ref = <<>>

\* entropy = calculate_entropy(results); bias = calculate_collapse_bias(results)
CallMetrics ==
    /\ pc = "fn_input"
    /\ entropy' = calculate_entropy(results)
    /\ bias' = calculate_collapse_bias(results)
    /\ pc' = "fn_metrics"
    /\ UNCHANGED <<rng, args, results, draws, state_0_count, state_1_count,
                   verdict, written, console, exit_status, rng_at_call, ref>>

\* the if/elif/else of lines 118-130 applied to the entropy at hand
CallClassify ==
    /\ pc \in {"fn_input", "fn_metrics"}
    /\ status_msg' = StatusMsg(entropy)
    /\ exit_code' = ExitCode(entropy)
    /\ pc' = "fn_classified"
    /\ UNCHANGED <<rng, args, results, draws, metrics, written, console,
                   exit_status, rng_at_call, ref>>

NextFn == CallMetrics \/ CallClassify

SpecFn == InitFn /\ [][NextFn]_vars

----------------------------------------------------------------------------
(* Properties *)

\* the arguments at hand are ones validation must reject
Rejected == simulations <= 0 \/ noise < 0 \/ noise > NoiseUnit
Running == pc \notin {"idle", "fn_input", "fn_metrics", "fn_classified"}
Accepted == Running /\ ~Rejected

\* lines 91-96 have run
MetricsComputed == Accepted /\ pc \in {"classify", "export", "finish", "exited"}
\* lines 115-130 have run
Classified == Accepted /\ pc \in {"export", "finish", "exited"}
WriteFailed == \E i \in 1 .. Len(written) : ~written[i].ok

\* C1: a call with simulations <= 0 or noise outside [0,1] ends with exit code 1,
\* takes no draw from the random source, generates no outcome and writes no
\* export file, whatever seed, output, graph and ci_mode are.
C1_RejectedRunExitsOne ==
    (Running /\ Rejected) =>
        /\ draws = 0 /\ results = <<>>
        /\ written = <<>> /\ status_msg = ""
        /\ pc \in {"seed", "validate", "exited"}
        /\ (pc = "exited" => exit_status = <<1>>)

C1_Witness ==
    /\ pc = "exited" /\ exit_status = <<1>>
    /\ simulations > 0 /\ noise > NoiseUnit
    /\ seed # <<>> /\ Truthy(output) /\ ~graph /\ ci_mode

\* C2: the exit status is 0 exactly when validation passes, the tier is STABLE or
\* WARNING and no export write fails; otherwise it is 1; among accepted runs
\* whose write did not fail only CRITICAL (entropy > 0.8) gives a non-zero status.
C2_ExitStatus ==
    pc = "exited" =>
        /\ exit_status \in {<<0>>, <<1>>}
        /\ exit_status = <<0>> <=>
               (~Rejected /\ status_msg \in {STABLE, WARNING} /\ ~WriteFailed)
        /\ (exit_status = <<1>> /\ ~Rejected /\ ~WriteFailed) =>
               (status_msg = CRITICAL /\ 10 * entropy > 8 * Scale)
        /\ (~Rejected /\ 10 * entropy > 8 * Scale) => exit_status = <<1>>

C2_Witness ==
    /\ pc = "exited" /\ exit_status = <<0>>
    /\ status_msg = WARNING
    /\ written # <<>> /\ ~WriteFailed

\* C3: two runs with the same supplied seed, simulations and noise produce the same
\* outcome sequence, entropy, bias, counts and status, whatever state the random
\* source was in when each run was entered.
C3_Determinism ==
    (/\ ref # <<>>
     /\ Classified
     /\ seed = ref[1].seed
     /\ simulations = ref[1].simulations
     /\ noise = ref[1].noise) => RunRecord = ref[1]

\* a second run of a recorded configuration, entered with the random source in a
\* state other than the seeded one, has finished with outcomes of both kinds
C3_Witness ==
    /\ ref # <<>> /\ pc = "exited" /\ ~Rejected
    /\ seed = ref[1].seed
    /\ simulations = ref[1].simulations
    /\ noise = ref[1].noise
    /\ rng_at_call # <<SeedState(seed[1])>>
    /\ state_0_count > 0 /\ state_1_count > 0
    /\ RunRecord = ref[1]

\* C4: entropy > 0.8 is CRITICAL, otherwise entropy > 0.4 is WARNING, otherwise
\* STABLE; 0.4 itself is STABLE and 0.8 itself is WARNING.
C4_Classification ==
    pc = "fn_classified" =>
        /\ (10 * entropy > 8 * Scale) => status_msg = CRITICAL
        /\ (10 * entropy <= 8 * Scale /\ 10 * entropy > 4 * Scale)
               => status_msg = WARNING
        /\ (10 * entropy <= 4 * Scale) => status_msg = STABLE
        /\ (10 * entropy = 4 * Scale) => status_msg = STABLE
        /\ (10 * entropy = 8 * Scale) => status_msg = WARNING

C4_Witness ==
    /\ pc = "fn_classified"
    /\ 10 * entropy = 8 * Scale
    /\ status_msg = WARNING

\* C5: in every accepted run the metrics satisfy 0 <= entropy <= 1 and
\* 0 <= bias <= 0.5.
C5_MetricRanges ==
    MetricsComputed =>
        /\ 0 <= entropy /\ entropy <= Scale
        /\ 0 <= bias /\ 2 * bias <= Scale

C5_Witness ==
    /\ MetricsComputed
    /\ 0 < entropy /\ entropy < Scale
    /\ 0 < bias /\ 2 * bias < Scale
    /\ 2 * state_1_count < simulations

\* C6: with noise = 1.0 and simulations > 0 every outcome is 0, so the run reports
\* no 1s, simulations 0s, bias 0.5, entropy 0, STABLE, and exits with 0 unless the
\* export write fails.
C6_FullNoise ==
    (Running /\ noise = NoiseUnit /\ simulations > 0) =>
        /\ \A i \in 1 .. Len(results) : results[i] = 0
        /\ MetricsComputed =>
              /\ state_1_count = 0 /\ state_0_count = simulations
              /\ 2 * bias = Scale /\ entropy = 0
        /\ Classified => status_msg = STABLE
        /\ (pc = "exited" /\ ~WriteFailed) => exit_status = <<0>>

C6_Witness ==
    /\ pc = "exited" /\ noise = NoiseUnit /\ simulations > 1
    /\ seed = <<>> /\ exit_status = <<0>>
    /\ state_0_count = simulations

\* C7: on a non-empty outcome sequence of only 0s or only 1s calculate_entropy is 0.0 and
\* calculate_collapse_bias is 0.5; on a non-empty outcome sequence with as many 0s as 1s
\* calculate_entropy is 1.0 and calculate_collapse_bias is 0.0.
C7_ExtremeSequences ==
    (/\ pc = "fn_metrics" /\ results # <<>>
     /\ \A i \in 1 .. Len(results) : results[i] \in {0, 1}) =>
        LET zeros == {i \in 1 .. Len(results) : results[i] = 0}
            ones  == {i \in 1 .. Len(results) : results[i] = 1}
        IN  /\ (zeros = {} \/ ones = {}) => (entropy = 0 /\ 2 * bias = Scale)
            /\ Cardinality(zeros) = Cardinality(ones)
                  => (entropy = Scale /\ bias = 0)

C7_Witness ==
    /\ pc = "fn_metrics"
    /\ results = <<0, 1, 1, 0>>
    /\ entropy = Scale /\ bias = 0

\* C8: a run rejected by validation leaves the process-wide random source exactly
\* as it was when the call was made, also when a seed is supplied.
C8_RejectedRunLeavesRandomSource ==
    (pc = "exited" /\ Rejected) => rng_at_call = <<rng>>

\* C9: an accepted run given an output path attempts the write exactly once, after
\* generation and classification and before the exit status is set, for every
\* tier; a failed write ends the run with status 1, and the metrics, counts and
\* status at hand are still the ones that were computed.
C9_ExportOnce ==
    /\ Len(written) <= 1
    /\ written # <<>> =>
          /\ Accepted /\ Truthy(output)
          /\ pc \in {"finish", "exited"}
          /\ Len(results) = simulations /\ draws = simulations
          /\ status_msg \in {STABLE, WARNING, CRITICAL}
          /\ written[1].data.entropy = entropy
          /\ written[1].data.bias = bias
          /\ written[1].data.fail_0 = state_0_count
          /\ written[1].data.pass_1 = state_1_count
          /\ written[1].data.status = status_msg
          /\ ~written[1].ok => (pc = "exited" /\ exit_status = <<1>>)
    /\ (Accepted /\ Truthy(output) /\ pc \in {"finish", "exited"})
          => Len(written) = 1
    /\ (Accepted /\ exit_status # <<>> /\ Truthy(output)) => written # <<>>
    /\ (Accepted /\ ~Truthy(output)) => written = <<>>

C9_Witness ==
    /\ pc = "exited" /\ exit_status = <<1>>
    /\ status_msg = CRITICAL
    /\ Len(written) = 1 /\ written[1].ok
    /\ written[1].data.status = CRITICAL

\* C10: an accepted run takes exactly `simulations` draws, one per outcome, and
\* produces exactly `simulations` outcomes, each 0 or 1; the two reported counts
\* add up to simulations.
C10_OneDrawPerOutcome ==
    Running =>
        /\ draws = Len(results)
        /\ \A i \in 1 .. Len(results) : results[i] \in {0, 1}
        /\ Accepted => Len(results) <= simulations
        /\ (Accepted /\ pc \notin {"seed", "validate", "generate"})
              => (draws = simulations /\ Len(results) = simulations)
        /\ MetricsComputed => state_0_count + state_1_count = simulations

C10_Witness ==
    /\ pc = "exited" /\ ~Rejected
    /\ simulations > 2 /\ draws = simulations
    /\ state_0_count > 0 /\ state_1_count > 0
    /\ state_0_count + state_1_count = simulations

====
